---- MODULE Spec2Model ----
(***************************************************************************)
(* inflate-template: a directory of template files is expanded against a   *)
(* data object, in memory (inflateTemplate) or to an output directory      *)
(* (exportTemplate).  The model follows src/src/index.ts lines 1-317.      *)
(*                                                                         *)
(* A path is a sequence of path components, so that path.join,             *)
(* path.dirname and path.relative are computed rather than assumed.        *)
(* The content of a file is a sequence of tokens; the token "{{k}}" is a   *)
(* Handlebars placeholder for the key k of the data object and the token   *)
(* "{{#" is text that Handlebars cannot parse.                             *)
(*                                                                         *)
(* Every await of the source is one step of the model: the variable pc     *)
(* holds the position of the one asynchronous call that is running.        *)
(***************************************************************************)
EXTENDS Integers, Sequences, FiniteSets, TLC

VARIABLES
    diskDirs,       \* the directories of the file system (a set of paths)
    diskFiles,      \* the regular files of the file system: path -> content
    data,           \* the data object given at inflate time (the value of its key k)
    options,        \* IExportOptions of the running call
    files,          \* Template.files
    inflated,       \* inflateTemplate has resolved: the caller holds the template
    call,           \* the entry point the caller invoked last
    pc,             \* position of the running call; "idle" when none is running
    outcome,        \* "none" | "pending" | "resolved" | "rejected" of the last call
    err,            \* the error the last call rejected with
    cur,            \* the file of the running expand/export: an index of files
    templateData,   \* local of TemplateFile.expand (line 71)
    expandedContent,\* local of TemplateFile.export (line 82) / value expand resolves to
    found,          \* the last find: its argument and its result, an index of
                    \* files, 0 for null
    disk0Dirs,      \* history: diskDirs when the running call started
    disk0Files,     \* history: diskFiles when the running call started
    written,        \* history: paths written by the running exportTemplate
    reads,          \* history: number of fs.readFile calls per entry of files
    compiles,       \* history: number of Handlebars invocations per entry of files
    results,        \* history: the values the expand() calls on each entry resolved to
    expandCalls,    \* history: number of expand() calls the caller issued per entry of files
    other           \* the activation that is not running: the variables of another
                    \* call in progress, suspended at one of its awaits

vars == <<diskDirs, diskFiles, data, options, files, inflated, call, pc, outcome, err,
          cur, templateData, expandedContent, found, disk0Dirs, disk0Files, written,
          reads, compiles, results, expandCalls, other>>

-----------------------------------------------------------------------------
(* Bounds *)

\* The caller issues at most this many expand() calls on an inflated template.
MaxExpandCalls == 2

-----------------------------------------------------------------------------
(* Paths (node's path module) *)

\* path.join(a, b)
PathJoin(a, b) == a \o b

\* path.dirname(p)
PathDirname(p) == SubSeq(p, 1, Len(p) - 1)

\* a is p or an ancestor directory of p
IsPrefix(a, p) == Len(a) <= Len(p) /\ SubSeq(p, 1, Len(a)) = a

\* path.relative(from, to), for a path `to` located under `from`
PathRelative(from, to) == SubSeq(to, Len(from) + 1, Len(to))

-----------------------------------------------------------------------------
(* The universe of the model *)

TemplatePath == <<"tpl">>
OutputPath == <<"out">>
ConfigFileName == <<"template.json">>
TestDataFileName == <<"test-data.json">>

PlainText == <<"t">>
PlaceholderText == <<"t", "{{k}}">>
MalformedText == <<"{{#">>
OldText == <<"old">>

\* The template trees Init chooses from.  a and b are the contents of a.txt and of
\* sub/b.txt (empty for "no such file"); extra chooses what else the template holds:
\* nothing, a template.json whose noExpand is a string, a template.json whose
\* noExpand is an array together with test-data.json and assets/c.txt, assets/c.txt
\* alone, or a template.json that is not JSON.
TreeChoices ==
    [ a     : {<<>>, PlainText, PlaceholderText, MalformedText},
      b     : {<<>>, PlainText, PlaceholderText},
      extra : {"none", "config", "all", "assets", "malformed"} ]

ConfigString == <<"{", "noExpand", ":", "sub/**/*", "}">>
ConfigArray == <<"{", "noExpand", ":", "[", "sub/**/*", "]", "}">>
ConfigMalformed == <<"{", "noExpand", ":">>

RelA == <<"a.txt">>
RelB == <<"sub", "b.txt">>
RelC == <<"assets", "c.txt">>

\* The files of a chosen tree, as <<path, content>> pairs.
TreeFiles(t) ==
    LET all == { <<PathJoin(TemplatePath, RelA), t.a>>,
                 <<PathJoin(TemplatePath, RelB), t.b>>,
                 <<PathJoin(TemplatePath, RelC),
                   IF t.extra \in {"all", "assets"} THEN PlainText ELSE <<>> >>,
                 <<PathJoin(TemplatePath, ConfigFileName),
                   IF t.extra = "config" THEN ConfigString
                   ELSE IF t.extra = "all" THEN ConfigArray
                   ELSE IF t.extra = "malformed" THEN ConfigMalformed ELSE <<>> >>,
                 <<PathJoin(TemplatePath, TestDataFileName),
                   IF t.extra = "all" THEN <<"{", "}">> ELSE <<>> >> }
    IN  { e \in all : e[2] # <<>> }

\* The output trees Init chooses from.
NoOutput == [exists |-> FALSE, paths |-> {}]
OutputChoices ==
    { NoOutput,
      [exists |-> TRUE,  paths |-> {}],
      [exists |-> TRUE,  paths |-> {PathJoin(OutputPath, RelA)}],
      [exists |-> TRUE,  paths |-> {PathJoin(OutputPath, RelA),
                                    PathJoin(OutputPath, <<"old.txt">>)}] }

\* Every ancestor directory of the paths in S (the root <<>> is left implicit)
Ancestors(S) == UNION { { SubSeq(p, 1, n) : n \in 1..(Len(p) - 1) } : p \in S }

\* The values the data object's key k may hold.
DataValues == {"v1", "v2"}

\* At most this many in-memory files are supplied at inflate time.
MaxInMemory == 1

\* The in-memory files ({ file, content }) a caller may supply.
InMemoryChoices ==
    { [file |-> RelA, content |-> <<"m">>],
      [file |-> RelA, content |-> <<"m", "{{k}}">>],
      [file |-> <<"mem.txt">>, content |-> <<"m">>] }

\* The sequences over S of at most n elements, without regard to repetition
SeqsUpTo(S, n) == UNION { [1..k -> S] : k \in 0..n }

\* The orders in which the elements of the set S can be listed
Orderings(S) ==
    { s \in [1..Cardinality(S) -> S] : \A i, j \in DOMAIN s : i # j => s[i] # s[j] }

-----------------------------------------------------------------------------
(* The file system (fs-extra) *)

\* fs.pathExists(p) / fs.pathExistsSync(p)
PathExists(p) == p \in diskDirs \/ p \in DOMAIN diskFiles

\* Mutant of RemoveFiles: only p itself is removed, not the files below it.
RemoveFiles_NotRecursive(p) ==
    [ q \in { r \in DOMAIN diskFiles : r # p } |-> diskFiles[q] ]

\* fs.remove(p): p and everything below it
RemoveDirs(p) == { d \in diskDirs : ~IsPrefix(p, d) }
RemoveFiles(p) == [ q \in { r \in DOMAIN diskFiles : ~IsPrefix(p, r) } |-> diskFiles[q] ]

\* fs.ensureDir(p): p and its missing ancestors become directories; it fails when
\* one of them is a regular file.
EnsureDirOk(p) == \A n \in 1..Len(p) : SubSeq(p, 1, n) \notin DOMAIN diskFiles
EnsureDirDirs(p) == diskDirs \cup { SubSeq(p, 1, n) : n \in 1..Len(p) }

\* fs.writeFile(p, c): creates or replaces the file p; it fails when p is a
\* directory or when the directory of p does not exist.
WriteFileOk(p) == p \notin diskDirs /\ (Len(p) = 1 \/ PathDirname(p) \in diskDirs)
WriteFileFiles(p, c) == [ q \in DOMAIN diskFiles \cup {p} |-> IF q = p THEN c ELSE diskFiles[q] ]

\* Mutant of Globby: the pattern root/* in place of root/**/*: only the regular
\* files directly in root.
Globby_TopLevelOnly(root, excluded) ==
    { p \in DOMAIN diskFiles : PathDirname(p) = root /\ p \notin excluded }

\* globby([root/**/*, !x, !y]): the regular files at any depth below root, but
\* for the excluded paths.
Globby(root, excluded) ==
    { p \in DOMAIN diskFiles : IsPrefix(root, p) /\ p # root /\ p \notin excluded }

-----------------------------------------------------------------------------
(* Handlebars *)

\* Handlebars.compile(text) throws on text it cannot parse.
CanCompile(text) == \A i \in DOMAIN text : text[i] # "{{#"

\* Mutant of Render: the text is returned as it is, placeholders included.
Render_NoSubstitution(text, d) == text

\* Handlebars.compile(text)(d): every placeholder of key k becomes the value d.
Render(text, d) == [ i \in DOMAIN text |-> IF text[i] = "{{k}}" THEN d ELSE text[i] ]

-----------------------------------------------------------------------------
(* TemplateFile and Template *)

\* Mutant of NewTemplateFile: relativePath is the file's path as globby gave it,
\* not made relative to the template path.
NewTemplateFile_NotRelative(filePath, templatePath) ==
    [ fullPath     |-> filePath,
      relativePath |-> filePath,
      hasContent   |-> FALSE,
      content      |-> <<>> ]

\* new TemplateFile(data, options, filePath, templatePath): the entry of a file on
\* disk.  data and options are the shared objects held in the variables of those
\* names.  An entry built from disk carries no content of its own.
NewTemplateFile(filePath, templatePath) ==
    [ fullPath     |-> filePath,
      relativePath |-> PathRelative(templatePath, filePath),
      hasContent   |-> FALSE,
      content      |-> <<>> ]

\* The entry of an in-memory file { file, content }: its content is resident and
\* it is expandable.
NewInMemoryFile(m, templatePath) ==
    [ fullPath     |-> PathJoin(templatePath, m.file),
      relativePath |-> m.file,
      hasContent   |-> TRUE,
      content      |-> m.content ]

\* The index of the first entry of fs whose relativePath is name, 0 when none.
IndexOf(fs, name) ==
    IF \E i \in DOMAIN fs : fs[i].relativePath = name
    THEN CHOOSE i \in DOMAIN fs :
            /\ fs[i].relativePath = name
            /\ \A j \in DOMAIN fs : fs[j].relativePath = name => i <= j
    ELSE 0

\* Mutant of Find: an entry matches when the last segment of its relativePath is
\* the last segment of fileName.
Find_ByBaseName(fs, fileName) ==
    IF \E i \in DOMAIN fs :
          fs[i].relativePath[Len(fs[i].relativePath)] = fileName[Len(fileName)]
    THEN CHOOSE i \in DOMAIN fs :
            fs[i].relativePath[Len(fs[i].relativePath)] = fileName[Len(fileName)]
    ELSE 0

\* Template.find(fileName): the first entry whose relativePath is fileName, null
\* (0) when there is none.
Find(fs, fileName) == IndexOf(fs, fileName)

\* Insertion of the in-memory entries into the file map, in the order given: an
\* entry of a key already present takes the place of the earlier one.
RECURSIVE InsertInMemory(_, _)
InsertInMemory(fs, entries) ==
    IF entries = <<>> THEN fs
    ELSE LET e == Head(entries)
             i == IndexOf(fs, e.relativePath)
         IN  InsertInMemory(IF i = 0 THEN Append(fs, e) ELSE [fs EXCEPT ![i] = e],
                            Tail(entries))

\* Insertion of the entries discovered on disk: only the ones whose key is not
\* already in the map.
RECURSIVE InsertIfAbsent(_, _)
InsertIfAbsent(fs, entries) ==
    IF entries = <<>> THEN fs
    ELSE LET e == Head(entries)
         IN  InsertIfAbsent(IF IndexOf(fs, e.relativePath) = 0 THEN Append(fs, e) ELSE fs,
                            Tail(entries))

\* The history counters of a file set of n entries
Zeros(n) == [ i \in 1..n |-> 0 ]
NoResults(n) == [ i \in 1..n |-> <<>> ]

\* The sum of a sequence of numbers
RECURSIVE SumOf(_)
SumOf(s) == IF s = <<>> THEN 0 ELSE Head(s) + SumOf(Tail(s))

-----------------------------------------------------------------------------
(* Initial state: a file system, and no call issued yet *)

NoOptions == [ templatePath |-> TemplatePath, overwrite |-> FALSE, clean |-> FALSE,
               inMemoryFiles |-> <<>> ]

InitWith(outputs) ==
    /\ \E tplExists \in BOOLEAN, t \in TreeChoices, o \in outputs :
         LET tf == IF tplExists THEN TreeFiles(t) ELSE {}
             tpaths == { e[1] : e \in tf }
             tdirs == IF tplExists THEN {TemplatePath} \cup Ancestors(tpaths) ELSE {}
             odirs == IF o.exists THEN {OutputPath} ELSE {}
         IN  /\ tplExists \/ t = [a |-> <<>>, b |-> <<>>, extra |-> "none"]
             /\ diskDirs = tdirs \cup odirs
             /\ diskFiles = [ p \in tpaths \cup o.paths |->
                                IF p \in o.paths THEN OldText
                                ELSE (CHOOSE e \in tf : e[1] = p)[2] ]
    /\ data = "v1"
    /\ options = NoOptions
    /\ files = <<>>
    /\ inflated = FALSE
    /\ call = "none"
    /\ pc = "idle"
    /\ outcome = "none"
    /\ err = "none"
    /\ cur = 0
    /\ templateData = <<>>
    /\ expandedContent = <<>>
    /\ found = [fileName |-> <<>>, file |-> 0]
    /\ disk0Dirs = diskDirs
    /\ disk0Files = diskFiles
    /\ written = {}
    /\ reads = <<>>
    /\ compiles = <<>>
    /\ results = <<>>
    /\ expandCalls = <<>>

-----------------------------------------------------------------------------
(* How a step of the running call ends *)

\* The variables of the running activation: all but the file system
Frame ==
    [ data |-> data, options |-> options, files |-> files, inflated |-> inflated,
      call |-> call, pc |-> pc, outcome |-> outcome, err |-> err, cur |-> cur,
      templateData |-> templateData, expandedContent |-> expandedContent,
      found |-> found, disk0Dirs |-> disk0Dirs, disk0Files |-> disk0Files,
      written |-> written, reads |-> reads, compiles |-> compiles,
      results |-> results, expandCalls |-> expandCalls ]

Goto(label) == pc' = label /\ UNCHANGED <<outcome, err>>
Resolve == pc' = "idle" /\ outcome' = "resolved" /\ UNCHANGED err
Reject(e) == pc' = "idle" /\ outcome' = "rejected" /\ err' = e

fsVars == <<diskDirs, diskFiles>>
startVars == <<disk0Dirs, disk0Files>>
histVars == <<reads, compiles, results>>
localVars == <<cur, templateData, expandedContent>>

\* this.fullPath / this.relativePath of the file of the running expand/export
CurFile == files[cur]

\* path.join(outputPath, this.relativePath) of TemplateFile.export (line 83)
FullOutputPath == PathJoin(OutputPath, CurFile.relativePath)

-----------------------------------------------------------------------------
(* exportTemplate(data, outputPath, options) *)

\* The caller invokes exportTemplate.  options.clean is not a field of
\* IExportOptions: the caller may set it, no code reads it.
StartExport(d, ow, cl) ==
    /\ pc = "idle" /\ call = "none"
    /\ call' = "exportTemplate"
    /\ data' = d
    /\ options' = [NoOptions EXCEPT !.overwrite = ow, !.clean = cl]
    /\ pc' = "et_pathExists" /\ outcome' = "pending" /\ UNCHANGED err
    /\ disk0Dirs' = diskDirs /\ disk0Files' = diskFiles
    /\ written' = {}
    /\ UNCHANGED <<other, fsVars, files, inflated, localVars, found, histVars, expandCalls>>

\* Mutant of ET_PathExists: an existing output path is removed whether or not
\* overwrite is set.
ET_PathExists_IgnoresOverwrite ==
    /\ pc = "et_pathExists"
    /\ IF PathExists(OutputPath) THEN Goto("et_remove") ELSE Goto("et_ensureDir")
    /\ UNCHANGED <<other, fsVars, data, options, files, inflated, call, localVars, found,
                   startVars, written, histVars, expandCalls>>

\* Mutant of ET_Remove: the output directory is removed only when no other run is
\* in progress; until then the run waits.
ET_Remove_WaitsForOtherRun ==
    /\ pc = "et_remove"
    /\ other.pc = "idle"
    /\ diskDirs' = RemoveDirs(OutputPath)
    /\ diskFiles' = RemoveFiles(OutputPath)
    /\ Goto("et_ensureDir")
    /\ UNCHANGED <<other, data, options, files, inflated, call, localVars, found,
                   startVars, written, histVars, expandCalls>>

\* const exists = await fs.pathExists(outputPath); if (exists) { ... }
ET_PathExists ==
    /\ pc = "et_pathExists"
    /\ IF PathExists(OutputPath)
       THEN IF options.overwrite
            THEN Goto("et_remove")
            ELSE Reject("OutputPathExists")
       ELSE Goto("et_ensureDir")
    /\ UNCHANGED <<other, fsVars, data, options, files, inflated, call, localVars, found,
                   startVars, written, histVars, expandCalls>>

\* Mutant of ET_Remove: the existing output directory is left in place.
ET_Remove_Skipped ==
    /\ pc = "et_remove"
    /\ Goto("et_ensureDir")
    /\ UNCHANGED <<other, fsVars, data, options, files, inflated, call, localVars, found,
                   startVars, written, histVars, expandCalls>>

\* await fs.remove(outputPath);
ET_Remove ==
    /\ pc = "et_remove"
    /\ diskDirs' = RemoveDirs(OutputPath)
    /\ diskFiles' = RemoveFiles(OutputPath)
    /\ Goto("et_ensureDir")
    /\ UNCHANGED <<other, data, options, files, inflated, call, localVars, found,
                   startVars, written, histVars, expandCalls>>

\* Mutant of ET_EnsureDir: the output directory is not created before discovery;
\* it is left to the export of the files to create it.
ET_EnsureDir_LeftToExport ==
    /\ pc = "et_ensureDir"
    /\ Goto("rf_check")
    /\ UNCHANGED <<other, fsVars, data, options, files, inflated, call, localVars, found,
                   startVars, written, histVars, expandCalls>>

\* await fs.ensureDir(outputPath); then inflateTemplate constructs the Template.
ET_EnsureDir ==
    /\ pc = "et_ensureDir"
    /\ IF EnsureDirOk(OutputPath)
       THEN diskDirs' = EnsureDirDirs(OutputPath) /\ Goto("rf_check")
       ELSE UNCHANGED diskDirs /\ Reject("EnsureDirFailed")
    /\ UNCHANGED <<other, diskFiles, data, options, files, inflated, call, localVars, found,
                   startVars, written, histVars, expandCalls>>

\* Mutant of ET_Loop: the loop stops one file early.
ET_Loop_StopsEarly ==
    /\ pc = "et_loop"
    /\ IF cur < Len(files) THEN Goto("tf_read") ELSE Resolve
    /\ UNCHANGED <<other, fsVars, data, options, files, inflated, call, localVars, found,
                   startVars, written, histVars, expandCalls>>

\* for (const file of template.files) { await file.export(outputPath); }
ET_Loop ==
    /\ pc = "et_loop"
    /\ IF cur <= Len(files) THEN Goto("tf_read") ELSE Resolve
    /\ UNCHANGED <<other, fsVars, data, options, files, inflated, call, localVars, found,
                   startVars, written, histVars, expandCalls>>

-----------------------------------------------------------------------------
(* inflateTemplate(data, options) and Template.readFiles() *)

\* The caller invokes inflateTemplate, with the in-memory files mem.
StartInflate(d, mem) ==
    /\ pc = "idle" /\ call = "none"
    /\ call' = "inflateTemplate"
    /\ data' = d
    /\ options' = [NoOptions EXCEPT !.inMemoryFiles = mem]
    /\ pc' = "rf_check" /\ outcome' = "pending" /\ UNCHANGED err
    /\ disk0Dirs' = diskDirs /\ disk0Files' = diskFiles
    /\ UNCHANGED <<other, fsVars, files, inflated, localVars, found, written, histVars,
                   expandCalls>>

\* Mutant of RF_Check: the result of the existence check is not acted upon.
RF_Check_NoThrow ==
    /\ pc = "rf_check"
    /\ Goto("rf_glob")
    /\ UNCHANGED <<other, fsVars, data, options, files, inflated, call, localVars, found,
                   startVars, written, histVars, expandCalls>>

\* JSON.parse(text) succeeds: of the texts of the model, the ones whose braces close.
JsonParses(text) == text # <<>> /\ text[1] = "{" /\ text[Len(text)] = "}"

\* Mutant of RF_Check: template.json, when there is one, is parsed, and a text
\* that is not JSON is an error.
RF_Check_ParsesConfig ==
    /\ pc = "rf_check"
    /\ IF PathExists(options.templatePath)
       THEN LET config == PathJoin(options.templatePath, ConfigFileName)
            IN  IF config \in DOMAIN diskFiles /\ ~JsonParses(diskFiles[config])
                THEN Reject("ConfigurationError")
                ELSE Goto("rf_glob")
       ELSE Reject("TemplatePathNotFound")
    /\ UNCHANGED <<other, fsVars, data, options, files, inflated, call, localVars, found,
                   startVars, written, histVars, expandCalls>>

\* Mutant of RF_Check: a template path that does not exist is created as an empty
\* directory and the discovery goes on.
RF_Check_EnsuresDir ==
    /\ pc = "rf_check"
    /\ diskDirs' = EnsureDirDirs(options.templatePath)
    /\ Goto("rf_glob")
    /\ UNCHANGED <<other, diskFiles, data, options, files, inflated, call, localVars, found,
                   startVars, written, histVars, expandCalls>>

\* const exists = await fs.pathExistsSync(this.options.templatePath);
\* if (!exists) throw ...
RF_Check ==
    /\ pc = "rf_check"
    /\ IF PathExists(options.templatePath)
       THEN Goto("rf_glob")
       ELSE Reject("TemplatePathNotFound")
    /\ UNCHANGED <<other, fsVars, data, options, files, inflated, call, localVars, found,
                   startVars, written, histVars, expandCalls>>

\* The in-memory entries of the options, as a file map
InMemoryEntries ==
    InsertInMemory(<<>>, [ i \in DOMAIN options.inMemoryFiles |->
                             NewInMemoryFile(options.inMemoryFiles[i], options.templatePath) ])

\* Mutant of RF_Glob: the file set is made of the files found on disk alone.
RF_Glob_DiskOnly ==
    /\ pc = "rf_glob"
    /\ \E templateFilePaths \in
            Orderings(Globby(options.templatePath,
                             { PathJoin(options.templatePath, ConfigFileName),
                               PathJoin(options.templatePath, TestDataFileName) })) :
         files' = [ i \in DOMAIN templateFilePaths |->
                      NewTemplateFile(templateFilePaths[i], options.templatePath) ]
    /\ reads' = Zeros(Len(files'))
    /\ compiles' = Zeros(Len(files'))
    /\ results' = NoResults(Len(files'))
    /\ expandCalls' = Zeros(Len(files'))
    /\ IF call = "exportTemplate"
       THEN Goto("et_loop") /\ cur' = 1 /\ UNCHANGED inflated
       ELSE Resolve /\ inflated' = TRUE /\ UNCHANGED cur
    /\ UNCHANGED <<other, fsVars, data, options, call, templateData, expandedContent, found,
                   startVars, written>>

\* templateFilePaths = await globby([...]); this.files = templateFilePaths.map(...)
\* globby lists the files in an order the file system decides.
RF_Glob ==
    /\ pc = "rf_glob"
    /\ \E templateFilePaths \in
            Orderings(Globby(options.templatePath,
                             { PathJoin(options.templatePath, ConfigFileName),
                               PathJoin(options.templatePath, TestDataFileName) })) :
         files' = InsertIfAbsent(InMemoryEntries,
                     [ i \in DOMAIN templateFilePaths |->
                         NewTemplateFile(templateFilePaths[i], options.templatePath) ])
    /\ reads' = Zeros(Len(files'))
    /\ compiles' = Zeros(Len(files'))
    /\ results' = NoResults(Len(files'))
    /\ expandCalls' = Zeros(Len(files'))
    /\ IF call = "exportTemplate"
       THEN Goto("et_loop") /\ cur' = 1 /\ UNCHANGED inflated
       ELSE Resolve /\ inflated' = TRUE /\ UNCHANGED cur
    /\ UNCHANGED <<other, fsVars, data, options, call, templateData, expandedContent, found,
                   startVars, written>>

-----------------------------------------------------------------------------
(* TemplateFile.expand() and TemplateFile.export(outputPath) *)

\* The caller invokes expand() on entry i of an inflated template.
CallExpand(i) ==
    /\ pc = "idle" /\ inflated /\ call # "find"
    /\ SumOf(expandCalls) < MaxExpandCalls
    /\ i \in DOMAIN files
    /\ call' = "expand"
    /\ cur' = i
    /\ expandCalls' = [expandCalls EXCEPT ![i] = @ + 1]
    /\ pc' = "tf_read" /\ outcome' = "pending" /\ UNCHANGED err
    /\ disk0Dirs' = diskDirs /\ disk0Files' = diskFiles
    /\ UNCHANGED <<other, fsVars, data, options, files, inflated, templateData, expandedContent,
                   found, written, histVars>>

\* The caller invokes expand() again on the entry whose expand() it has not
\* awaited: the first call is suspended at its read, and a second activation of
\* expand() on the same TemplateFile starts.
CallExpandAgain ==
    /\ call = "expand" /\ pc = "tf_read"
    /\ other.call = "none"
    /\ other' = Frame
    /\ UNCHANGED <<fsVars, data, options, files, inflated, call, pc, outcome, err,
                   localVars, found, startVars, written, histVars, expandCalls>>

\* The activation that is running is suspended at its await and the other one
\* is resumed: the file system is the one thing the two have in common.
Switch ==
    /\ other.call # "none"
    /\ other' = Frame
    /\ data' = other.data /\ options' = other.options
    /\ files' = other.files /\ inflated' = other.inflated
    /\ call' = other.call /\ pc' = other.pc
    /\ outcome' = other.outcome /\ err' = other.err
    /\ cur' = other.cur
    /\ templateData' = other.templateData /\ expandedContent' = other.expandedContent
    /\ found' = other.found
    /\ disk0Dirs' = other.disk0Dirs /\ disk0Files' = other.disk0Files
    /\ written' = other.written
    /\ reads' = other.reads /\ compiles' = other.compiles
    /\ results' = other.results /\ expandCalls' = other.expandCalls
    /\ UNCHANGED fsVars

\* The caller invokes export(OutputPath) on entry i of an inflated template;
\* export() starts with a call of expand().
CallExport(i) ==
    /\ pc = "idle" /\ inflated /\ call # "find"
    /\ SumOf(expandCalls) < MaxExpandCalls
    /\ i \in DOMAIN files
    /\ call' = "export"
    /\ cur' = i
    /\ expandCalls' = [expandCalls EXCEPT ![i] = @ + 1]
    /\ pc' = "tf_read" /\ outcome' = "pending" /\ UNCHANGED err
    /\ disk0Dirs' = diskDirs /\ disk0Files' = diskFiles
    /\ UNCHANGED <<other, fsVars, data, options, files, inflated, templateData, expandedContent,
                   found, written, histVars>>

\* The caller changes the value of key k in the data object it gave to
\* inflateTemplate; the template and its files hold a reference to that object.
MutateData(d) ==
    /\ pc = "idle" /\ inflated /\ call # "find"
    /\ d # data
    /\ data' = d
    /\ UNCHANGED <<other, fsVars, options, files, inflated, call, pc, outcome, err, localVars,
                   found, startVars, written, histVars, expandCalls>>

\* Mutant of TF_Read: the text of a file is read from disk by the first call only;
\* a later call on the entry goes on with the text already loaded.
TF_Read_OncePerFile ==
    /\ pc = "tf_read"
    /\ ~CurFile.hasContent
    /\ IF reads[cur] > 0
       THEN /\ UNCHANGED reads
            /\ templateData' = diskFiles[CurFile.fullPath] /\ Goto("tf_compile")
       ELSE /\ reads' = [reads EXCEPT ![cur] = @ + 1]
            /\ IF CurFile.fullPath \in DOMAIN diskFiles
               THEN templateData' = diskFiles[CurFile.fullPath] /\ Goto("tf_compile")
               ELSE UNCHANGED templateData /\ Reject("ReadFailed")
    /\ UNCHANGED <<other, fsVars, data, options, files, inflated, call, cur, expandedContent,
                   found, startVars, written, compiles, results, expandCalls>>

\* Mutant of TF_Read: a call that finds another call on the same file between its
\* read and its expansion does not read: it goes on with the text loaded so far,
\* which is none.
TF_Read_JoinsLoadInProgress ==
    /\ pc = "tf_read"
    /\ ~CurFile.hasContent
    /\ IF other.call = call /\ other.cur = cur /\ other.pc = "tf_compile"
       THEN /\ UNCHANGED reads
            /\ templateData' = <<>> /\ Goto("tf_compile")
       ELSE /\ reads' = [reads EXCEPT ![cur] = @ + 1]
            /\ IF CurFile.fullPath \in DOMAIN diskFiles
               THEN templateData' = diskFiles[CurFile.fullPath] /\ Goto("tf_compile")
               ELSE UNCHANGED templateData /\ Reject("ReadFailed")
    /\ UNCHANGED <<other, fsVars, data, options, files, inflated, call, cur, expandedContent,
                   found, startVars, written, compiles, results, expandCalls>>

\* Mutant of TF_Read: the file is read from disk whatever the entry holds.
TF_Read_Always ==
    /\ pc = "tf_read"
    /\ reads' = [reads EXCEPT ![cur] = @ + 1]
    /\ IF CurFile.fullPath \in DOMAIN diskFiles
       THEN templateData' = diskFiles[CurFile.fullPath] /\ Goto("tf_compile")
       ELSE UNCHANGED templateData /\ Reject("ReadFailed")
    /\ UNCHANGED <<other, fsVars, data, options, files, inflated, call, cur, expandedContent,
                   found, startVars, written, compiles, results, expandCalls>>

\* const templateData = await promisify(fs.readFile)(this.fullPath, 'utf8');
TF_Read ==
    /\ pc = "tf_read"
    /\ ~CurFile.hasContent
    /\ reads' = [reads EXCEPT ![cur] = @ + 1]
    /\ IF CurFile.fullPath \in DOMAIN diskFiles
       THEN templateData' = diskFiles[CurFile.fullPath] /\ Goto("tf_compile")
       ELSE UNCHANGED templateData /\ Reject("ReadFailed")
    /\ UNCHANGED <<other, fsVars, data, options, files, inflated, call, cur, expandedContent,
                   found, startVars, written, compiles, results, expandCalls>>

\* The content of an in-memory entry is resident: nothing is read from disk.
TF_LoadContent ==
    /\ pc = "tf_read"
    /\ CurFile.hasContent
    /\ templateData' = CurFile.content
    /\ Goto("tf_compile")
    /\ UNCHANGED <<other, fsVars, data, options, files, inflated, call, cur, expandedContent,
                   found, startVars, written, histVars, expandCalls>>

\* Mutant of TF_Compile: an expand() that already resolved once answers from the
\* value it resolved to, without invoking Handlebars.
TF_Compile_Memoized ==
    /\ pc = "tf_compile"
    /\ IF call = "expand" /\ results[cur] # <<>>
       THEN /\ expandedContent' = results[cur][1]
            /\ Resolve /\ results' = [results EXCEPT ![cur] = Append(@, expandedContent')]
            /\ UNCHANGED compiles
       ELSE /\ compiles' = [compiles EXCEPT ![cur] = @ + 1]
            /\ IF CanCompile(templateData)
               THEN /\ expandedContent' = Render(templateData, data)
                    /\ IF call = "expand"
                       THEN Resolve /\ results' = [results EXCEPT ![cur] = Append(@, expandedContent')]
                       ELSE Goto("tf_ensureDir") /\ UNCHANGED results
               ELSE /\ Reject("HandlebarsError")
                    /\ UNCHANGED <<expandedContent, results>>
    /\ UNCHANGED <<other, fsVars, data, options, files, inflated, call, cur, templateData,
                   found, startVars, written, reads, expandCalls>>

\* Mutant of TF_Compile: in an export, a file Handlebars cannot compile is left
\* out and the loop goes on with the next file.
TF_Compile_ContinuesAfterFailure ==
    /\ pc = "tf_compile"
    /\ compiles' = [compiles EXCEPT ![cur] = @ + 1]
    /\ IF CanCompile(templateData)
       THEN /\ expandedContent' = Render(templateData, data)
            /\ UNCHANGED cur
            /\ IF call = "expand"
               THEN Resolve /\ results' = [results EXCEPT ![cur] = Append(@, expandedContent')]
               ELSE Goto("tf_ensureDir") /\ UNCHANGED results
       ELSE /\ IF call = "expand"
               THEN Reject("HandlebarsError") /\ UNCHANGED cur
               ELSE Goto("et_loop") /\ cur' = cur + 1
            /\ UNCHANGED <<expandedContent, results>>
    /\ UNCHANGED <<other, fsVars, data, options, files, inflated, call, templateData,
                   found, startVars, written, reads, expandCalls>>

\* Mutant of TF_Compile: the expansion is appended to a buffer the files share, so
\* a file's expansion begins with the expansions of the files before it.
TF_Compile_SharedBuffer ==
    /\ pc = "tf_compile"
    /\ compiles' = [compiles EXCEPT ![cur] = @ + 1]
    /\ IF CanCompile(templateData)
       THEN /\ expandedContent' = expandedContent \o Render(templateData, data)
            /\ IF call = "expand"
               THEN Resolve /\ results' = [results EXCEPT ![cur] = Append(@, expandedContent')]
               ELSE Goto("tf_ensureDir") /\ UNCHANGED results
       ELSE /\ Reject("HandlebarsError")
            /\ UNCHANGED <<expandedContent, results>>
    /\ UNCHANGED <<other, fsVars, data, options, files, inflated, call, cur, templateData,
                   found, startVars, written, reads, expandCalls>>

\* Mutant of TF_Compile: a text Handlebars cannot compile is returned as it is and
\* the failure is not reported.
TF_Compile_SwallowsFailure ==
    /\ pc = "tf_compile"
    /\ compiles' = [compiles EXCEPT ![cur] = @ + 1]
    /\ expandedContent' = IF CanCompile(templateData)
                          THEN Render(templateData, data) ELSE templateData
    /\ IF call = "expand"
       THEN Resolve /\ results' = [results EXCEPT ![cur] = Append(@, expandedContent')]
       ELSE Goto("tf_ensureDir") /\ UNCHANGED results
    /\ UNCHANGED <<other, fsVars, data, options, files, inflated, call, cur, templateData,
                   found, startVars, written, reads, expandCalls>>

\* const expandedTemplate = Handlebars.compile(templateData)(this.data);
\* return expandedTemplate;
TF_Compile ==
    /\ pc = "tf_compile"
    /\ compiles' = [compiles EXCEPT ![cur] = @ + 1]
    /\ IF CanCompile(templateData)
       THEN /\ expandedContent' = Render(templateData, data)
            /\ IF call = "expand"
               THEN Resolve /\ results' = [results EXCEPT ![cur] = Append(@, expandedContent')]
               ELSE Goto("tf_ensureDir") /\ UNCHANGED results
       ELSE /\ Reject("HandlebarsError")
            /\ UNCHANGED <<expandedContent, results>>
    /\ UNCHANGED <<other, fsVars, data, options, files, inflated, call, cur, templateData,
                   found, startVars, written, reads, expandCalls>>

\* Mutant of TF_EnsureDir: the directory ensured is the output path, not the
\* directory of the destination.
TF_EnsureDir_OutputPathOnly ==
    /\ pc = "tf_ensureDir"
    /\ IF EnsureDirOk(OutputPath)
       THEN diskDirs' = EnsureDirDirs(OutputPath) /\ Goto("tf_write")
       ELSE UNCHANGED diskDirs /\ Reject("EnsureDirFailed")
    /\ UNCHANGED <<other, diskFiles, data, options, files, inflated, call, localVars, found,
                   startVars, written, histVars, expandCalls>>

\* const fullOutputPath = path.join(outputPath, this.relativePath);
\* await fs.ensureDir(path.dirname(fullOutputPath));
TF_EnsureDir ==
    /\ pc = "tf_ensureDir"
    /\ IF EnsureDirOk(PathDirname(FullOutputPath))
       THEN diskDirs' = EnsureDirDirs(PathDirname(FullOutputPath)) /\ Goto("tf_write")
       ELSE UNCHANGED diskDirs /\ Reject("EnsureDirFailed")
    /\ UNCHANGED <<other, diskFiles, data, options, files, inflated, call, localVars, found,
                   startVars, written, histVars, expandCalls>>

\* await promisify(fs.writeFile)(fullOutputPath, expandedContent);
\* export() returns: to the loop of exportTemplate, or to the caller of export().
TF_Write ==
    /\ pc = "tf_write"
    /\ IF WriteFileOk(FullOutputPath)
       THEN /\ diskFiles' = WriteFileFiles(FullOutputPath, expandedContent)
            /\ written' = written \cup {FullOutputPath}
            /\ IF call = "export"
               THEN Resolve /\ UNCHANGED cur
               ELSE Goto("et_loop") /\ cur' = cur + 1
       ELSE /\ Reject("WriteFailed")
            /\ UNCHANGED <<diskFiles, written, cur>>
    /\ UNCHANGED <<other, diskDirs, data, options, files, inflated, call, templateData,
                   expandedContent, found, startVars, histVars, expandCalls>>

-----------------------------------------------------------------------------
(* Template.find(fileName) *)

\* The names a caller looks up: paths of entries, the last segment of one, and a
\* name no entry has.
FindNames == { RelA, RelB, <<"b.txt">>, <<"mem.txt">>, <<"missing.txt">> }

\* Mutant of CallFind: the entry found is moved to the front of the file set, to
\* make the next lookup of it short.
CallFind_MovesToFront(fileName) ==
    /\ pc = "idle" /\ inflated
    /\ call # "find"
    /\ call' = "find"
    /\ LET i == Find(files, fileName)
       IN  /\ found' = [fileName |-> fileName, file |-> IF i = 0 THEN 0 ELSE 1]
           /\ files' = IF i = 0 THEN files
                       ELSE <<files[i]>> \o SubSeq(files, 1, i - 1)
                                        \o SubSeq(files, i + 1, Len(files))
    /\ Resolve
    /\ UNCHANGED <<other, fsVars, data, options, inflated, localVars, startVars,
                   written, histVars, expandCalls>>

\* The caller invokes find(fileName) on an inflated template, as its last call.
CallFind(fileName) ==
    /\ pc = "idle" /\ inflated
    /\ call # "find"
    /\ call' = "find"
    /\ found' = [fileName |-> fileName, file |-> Find(files, fileName)]
    /\ Resolve
    /\ UNCHANGED <<other, fsVars, data, options, files, inflated, localVars, startVars,
                   written, histVars, expandCalls>>

-----------------------------------------------------------------------------

\* exportTemplate, from a file system with or without an output directory
InitExport == InitWith(OutputChoices) /\ other = Frame

NextExport ==
    \/ \E d \in DataValues, ow \in BOOLEAN, cl \in BOOLEAN : StartExport(d, ow, cl)
    \/ ET_PathExists
    \/ ET_Remove
    \/ ET_EnsureDir
    \/ RF_Check
    \/ RF_Glob
    \/ ET_Loop
    \/ TF_Read
    \/ TF_Compile
    \/ TF_EnsureDir
    \/ TF_Write

SpecExport == InitExport /\ [][NextExport]_vars

\* inflateTemplate, then expand() and find() on the template it resolved to
InitInflate == InitWith({NoOutput}) /\ other = Frame

NextInflate ==
    \/ \E d \in DataValues, mem \in SeqsUpTo(InMemoryChoices, MaxInMemory) : StartInflate(d, mem)
    \/ RF_Check
    \/ RF_Glob
    \/ \E i \in DOMAIN files : CallExpand(i)
    \/ TF_Read
    \/ TF_LoadContent
    \/ TF_Compile
    \/ \E n \in FindNames : CallFind(n)

SpecInflate == InitInflate /\ [][NextInflate]_vars

\* inflateTemplate on a template of a.txt and sub/b.txt, then expand(), export()
\* and find() on the template it resolved to, the caller changing the data between
\* its calls
InitFile ==
    /\ InitWith({NoOutput})
    /\ DOMAIN diskFiles \subseteq {PathJoin(TemplatePath, RelA), PathJoin(TemplatePath, RelB)}
    /\ other = Frame

NextFile ==
    \/ \E d \in DataValues : StartInflate(d, <<>>)
    \/ RF_Check
    \/ RF_Glob
    \/ \E i \in DOMAIN files : CallExpand(i)
    \/ \E i \in DOMAIN files : CallExport(i)
    \/ \E d \in DataValues : MutateData(d)
    \/ TF_Read
    \/ TF_Compile
    \/ TF_EnsureDir
    \/ TF_Write
    \/ \E n \in FindNames : CallFind(n)

SpecFile == InitFile /\ [][NextFile]_vars

\* inflateTemplate on a template of a.txt and sub/b.txt, then expand() calls of
\* which two on one TemplateFile overlap
NextOverlap ==
    \/ \E d \in DataValues : StartInflate(d, <<>>)
    \/ RF_Check
    \/ RF_Glob
    \/ \E i \in DOMAIN files : CallExpand(i)
    \/ CallExpandAgain
    \/ Switch
    \/ TF_Read
    \/ TF_Compile

SpecOverlap == InitFile /\ [][NextOverlap]_vars

\* Two exportTemplate runs of one template of a.txt and sub/b.txt to the same
\* output path: the second run has been called, with its own data and overwrite
\* option, and has taken no step yet.
InitRace ==
    /\ InitWith({ NoOutput, [exists |-> TRUE, paths |-> {PathJoin(OutputPath, RelA)}] })
    /\ { p \in DOMAIN diskFiles : IsPrefix(TemplatePath, p) }
          = { PathJoin(TemplatePath, RelA), PathJoin(TemplatePath, RelB) }
    /\ \A p \in DOMAIN diskFiles : IsPrefix(TemplatePath, p) => diskFiles[p] = PlaceholderText
    /\ \E d \in DataValues, ow \in BOOLEAN :
          other = [Frame EXCEPT !.call = "exportTemplate", !.pc = "et_pathExists",
                                !.outcome = "pending", !.data = d,
                                !.options = [NoOptions EXCEPT !.overwrite = ow]]

NextRace == NextExport \/ Switch

SpecRace == InitRace /\ [][NextRace]_vars

\* Either entry point on a template of a.txt and sub/b.txt: exportTemplate, or
\* inflateTemplate and then expand(), export() and find()
InitApi ==
    /\ InitWith({ NoOutput, [exists |-> TRUE, paths |-> {PathJoin(OutputPath, RelA)}] })
    /\ DOMAIN diskFiles \subseteq { PathJoin(TemplatePath, RelA), PathJoin(TemplatePath, RelB),
                                    PathJoin(OutputPath, RelA) }
    /\ other = Frame

NextApi == NextExport \/ NextFile

SpecApi == InitApi /\ [][NextApi]_vars

-----------------------------------------------------------------------------
(* Properties of exportTemplate *)

\* The output path existed when the running call started.
OutputExisted0 == OutputPath \in disk0Dirs \/ OutputPath \in DOMAIN disk0Files

\* The files at or below the output path, in a file map
OutputFilesOf(fm) == { p \in DOMAIN fm : IsPrefix(OutputPath, p) }

\* The destinations of the entries of the file set
Destinations == { PathJoin(OutputPath, files[i].relativePath) : i \in DOMAIN files }

ExportFinished == call = "exportTemplate" /\ pc = "idle"

\* C1: exportTemplate on an output path that exists, without overwrite, rejects
\* with the "already exists" error at its existence check, and the file system is
\* then exactly as it was when the call started.
C1_NoOverwriteRejectsUntouched ==
    (call = "exportTemplate" /\ OutputExisted0 /\ ~options.overwrite /\ pc # "et_pathExists")
        => /\ pc = "idle" /\ outcome = "rejected" /\ err = "OutputPathExists"
           /\ diskDirs = disk0Dirs
           /\ diskFiles = disk0Files

C1_Witness ==
    /\ ExportFinished /\ outcome = "rejected" /\ err = "OutputPathExists"
    /\ OutputFilesOf(disk0Files) # {}

\* C2 as stated: exportTemplate with overwrite and without clean, on an existing
\* output directory, does not fail on the existing directory and, once resolved,
\* every pre-existing file that is not the destination of a template file is still
\* there with its content.
C2_OverwriteMerges ==
    (ExportFinished /\ options.overwrite /\ ~options.clean /\ OutputExisted0)
        => /\ err # "OutputPathExists"
           /\ outcome = "resolved" =>
                \A p \in OutputFilesOf(disk0Files) \ Destinations :
                    p \in DOMAIN diskFiles /\ diskFiles[p] = disk0Files[p]

\* C2 as amended: exportTemplate with overwrite and without clean, on an existing
\* output directory, does not fail on the existing directory; it removes the
\* directory, so once the call has ended no pre-existing file is left but at the
\* paths this export wrote, and a resolved export leaves only destinations of
\* template files.
C2_OverwriteRemoves ==
    (ExportFinished /\ options.overwrite /\ ~options.clean /\ OutputExisted0)
        => /\ err # "OutputPathExists"
           /\ \A p \in OutputFilesOf(disk0Files) : p \in DOMAIN diskFiles => p \in written
           /\ outcome = "resolved" => OutputFilesOf(diskFiles) \subseteq Destinations

C2_Witness ==
    /\ ExportFinished /\ options.overwrite /\ ~options.clean /\ outcome = "resolved"
    /\ \E p \in OutputFilesOf(disk0Files) : p \notin Destinations /\ p \notin DOMAIN diskFiles
    /\ \E p \in OutputFilesOf(disk0Files) : p \in written

\* C3: exportTemplate with overwrite and clean, on an existing output directory:
\* from the removal on (so before the first template file is written, and when the
\* export has resolved) the output directory holds only files this export wrote
\* and only directories this export made for the files of the template.
C3_CleanRemovesBeforeFirstWrite ==
    (call = "exportTemplate" /\ options.overwrite /\ options.clean /\ OutputExisted0
        /\ pc \notin {"et_pathExists", "et_remove"})
        => /\ OutputFilesOf(diskFiles) \subseteq written
           /\ \A d \in diskDirs :
                IsPrefix(OutputPath, d) => d = OutputPath \/ d \in Ancestors(Destinations)
           /\ (pc = "tf_write" /\ cur = 1) => OutputFilesOf(diskFiles) = {}

C3_Witness ==
    /\ ExportFinished /\ options.overwrite /\ options.clean /\ outcome = "resolved"
    /\ Cardinality(OutputFilesOf(disk0Files)) > 1
    /\ written # {}
    /\ \E p \in OutputFilesOf(disk0Files) : p \notin DOMAIN diskFiles

\* C4: when exportTemplate has resolved, the output directory exists and every
\* entry of the file set has a file at join(outputPath, relativePath) holding the
\* expansion of the entry's source against the data; with no entry the output
\* directory exists all the same.
C4_ExportWritesEveryEntry ==
    (ExportFinished /\ outcome = "resolved")
        => /\ OutputPath \in diskDirs
           /\ \A i \in DOMAIN files :
                LET dest == PathJoin(OutputPath, files[i].relativePath)
                IN  /\ dest \in DOMAIN diskFiles
                    /\ diskFiles[dest] = Render(disk0Files[files[i].fullPath], data)

C4_Witness ==
    /\ ExportFinished /\ outcome = "resolved"
    /\ Len(files) > 1
    /\ \E i \in DOMAIN files :
         /\ Len(files[i].relativePath) > 1
         /\ disk0Files[files[i].fullPath] = PlaceholderText
         /\ diskFiles[PathJoin(OutputPath, files[i].relativePath)] = <<"t", data>>

-----------------------------------------------------------------------------
(* Properties of inflateTemplate, readFiles and expand *)

InflateFinished == call = "inflateTemplate" /\ pc = "idle"

\* The template root existed when the running call started.
RootExisted0 == TemplatePath \in disk0Dirs \/ TemplatePath \in DOMAIN disk0Files

\* C5: inflateTemplate on a template root that does not exist rejects at the
\* existence check of readFiles, and no TemplateFile has been constructed: the file
\* set is empty when the failure is raised.
C5_MissingRootRejectsBeforeAnyFile ==
    (call = "inflateTemplate" /\ ~RootExisted0 /\ pc # "rf_check")
        => /\ pc = "idle" /\ outcome = "rejected" /\ err = "TemplatePathNotFound"
           /\ files = <<>>
           /\ ~inflated

C5_Witness ==
    /\ InflateFinished /\ ~RootExisted0
    /\ outcome = "rejected" /\ err = "TemplatePathNotFound"

\* C6: inflateTemplate on a template root that exists and has no assets
\* sub-directory rejects, and constructs no TemplateFile.
C6_NoAssetsRejects ==
    (InflateFinished /\ TemplatePath \in disk0Dirs
        /\ PathJoin(TemplatePath, <<"assets">>) \notin disk0Dirs)
        => outcome = "rejected" /\ files = <<>>

\* The relative paths given both as an in-memory file and as a file on disk
Overridden ==
    { options.inMemoryFiles[i].file : i \in DOMAIN options.inMemoryFiles }
        \cap { PathRelative(TemplatePath, p) : p \in Globby(TemplatePath, {}) }

\* The content of the in-memory file of relative path name (the last one given)
InMemoryContent(name) ==
    LET last == CHOOSE i \in DOMAIN options.inMemoryFiles :
                    /\ options.inMemoryFiles[i].file = name
                    /\ \A j \in DOMAIN options.inMemoryFiles :
                          options.inMemoryFiles[j].file = name => j <= i
    IN  options.inMemoryFiles[last].content

SameResults(i) == \A j, k \in DOMAIN results[i] : results[i][j] = results[i][k]

\* C9 as stated: two successive expand() calls on one TemplateFile resolve to the
\* same value and make, together, at most one disk read and at most one call of
\* the substitution engine.
C9_SecondExpandFromCache ==
    inflated =>
        \A i \in DOMAIN files :
            SameResults(i) /\ reads[i] <= 1 /\ compiles[i] <= 1

\* C9 as amended: successive expand() calls on one TemplateFile resolve to the same
\* value (file and data unchanged between them), and nothing is cached: each call
\* makes its own disk read, for an entry read from disk, and its own call of the
\* substitution engine.
C9_EveryExpandReadsAndCompiles ==
    (inflated /\ pc = "idle") =>
        \A i \in DOMAIN files :
            /\ SameResults(i)
            /\ compiles[i] = expandCalls[i]
            /\ reads[i] = IF files[i].hasContent THEN 0 ELSE expandCalls[i]

C9_Witness ==
    /\ inflated /\ pc = "idle"
    /\ \E i \in DOMAIN files :
         /\ ~files[i].hasContent
         /\ Len(results[i]) = 2 /\ results[i][1] = <<"t", data>>
         /\ reads[i] = 2 /\ compiles[i] = 2

\* The noExpand patterns of a template.json text: the strings of its noExpand
\* field, given as one string or as an array of strings.
NoExpandPatterns(text) ==
    IF \E i \in DOMAIN text : text[i] = "noExpand"
    THEN { text[i] : i \in DOMAIN text } \ {"{", "}", "[", "]", ":", "noExpand"}
    ELSE {}

\* The glob pattern matches the relative path: "<dir>/**/*" matches every file
\* below the directory <dir>.
GlobMatches(pattern, rel) == pattern = "sub/**/*" /\ Len(rel) > 1 /\ rel[1] = "sub"

\* The relative path is matched by a noExpand pattern of the template.json on disk.
IsNoExpand(rel) ==
    /\ PathJoin(TemplatePath, ConfigFileName) \in DOMAIN diskFiles
    /\ \E pat \in NoExpandPatterns(diskFiles[PathJoin(TemplatePath, ConfigFileName)]) :
          GlobMatches(pat, rel)

\* C10: for a file matched by a noExpand pattern of template.json, expand()
\* resolves to the file's content unchanged, placeholders included.
C10_NoExpandReturnsContentUnchanged ==
    inflated =>
        \A i \in DOMAIN files :
            (~files[i].hasContent /\ IsNoExpand(files[i].relativePath))
            => \A k \in DOMAIN results[i] : results[i][k] = diskFiles[files[i].fullPath]


\* C11: when exportTemplate has resolved, the destination of every file matched by
\* a noExpand pattern of template.json holds the source file's content unchanged
\* (the file is copied, not expanded).
C11_NoExpandExportCopies ==
    (ExportFinished /\ outcome = "resolved")
        => \A i \in DOMAIN files :
              (~files[i].hasContent /\ IsNoExpand(files[i].relativePath))
              => diskFiles[PathJoin(OutputPath, files[i].relativePath)]
                    = diskFiles[files[i].fullPath]


\* C12: a file matched by a noExpand pattern of template.json and by the expand
\* pattern (the default "**/*" matches every file) is pass-through and never in
\* the expand set: the substitution engine is never invoked on its entry.
C12_NoExpandNeverInExpandSet ==
    inflated =>
        \A i \in DOMAIN files :
            (~files[i].hasContent /\ IsNoExpand(files[i].relativePath))
            => compiles[i] = 0


AssetsPath == PathJoin(TemplatePath, <<"assets">>)

\* The regular files at any depth under the assets directory, relative to it
AssetsRelativePaths ==
    { PathRelative(AssetsPath, p) :
        p \in { q \in DOMAIN diskFiles : IsPrefix(AssetsPath, q) /\ q # AssetsPath } }

\* The template has no configuration: template.json is absent.
DefaultConfiguration == PathJoin(TemplatePath, ConfigFileName) \notin DOMAIN diskFiles

\* C14: with no in-memory file, the default configuration and an assets
\* directory, the relativePaths of the file set after readFiles are exactly the
\* files under templateRoot/assets, relative to the assets directory; no file of
\* the template root outside assets is an entry.
C14_EntriesAreTheAssets ==
    (inflated /\ options.inMemoryFiles = <<>> /\ DefaultConfiguration
        /\ AssetsPath \in diskDirs)
        => { files[i].relativePath : i \in DOMAIN files } = AssetsRelativePaths


\* C15: inflateTemplate writes nothing: at every step of the call, from its start
\* to its resolution or rejection, the directories, the files and the contents of
\* the file system are the ones the call started with.
C15_InflateWritesNothing ==
    call = "inflateTemplate" =>
        /\ diskDirs = disk0Dirs
        /\ diskFiles = disk0Files

\* inflateTemplate has resolved with an entry for each of several disk files.
C15_Witness ==
    /\ InflateFinished /\ outcome = "resolved"
    /\ Len(files) > 1
    /\ \A i \in DOMAIN files : files[i].fullPath \in DOMAIN diskFiles


\* C16: every expand() of an expandable entry read from disk (no noExpand pattern
\* matches it) resolves to the file's text with each placeholder replaced by the
\* value the data given at inflate time holds for it; a text with no placeholder
\* is returned unchanged.
C16_ExpandRendersContent ==
    inflated =>
        \A i \in DOMAIN files :
            (~files[i].hasContent /\ ~IsNoExpand(files[i].relativePath)) =>
                \A n \in DOMAIN results[i] :
                    LET content == diskFiles[files[i].fullPath]
                        expanded == results[i][n]
                    IN  /\ Len(expanded) = Len(content)
                        /\ \A j \in DOMAIN content :
                              expanded[j] = IF content[j] = "{{k}}" THEN data ELSE content[j]
                        /\ (\A j \in DOMAIN content : content[j] # "{{k}}")
                              => expanded = content

\* One entry with a placeholder was expanded to the text holding the data's value,
\* another without placeholder to its own text.
C16_Witness ==
    /\ inflated /\ pc = "idle" /\ data = "v2"
    /\ \E i, j \in DOMAIN files :
         /\ ~files[i].hasContent /\ ~files[j].hasContent
         /\ ~IsNoExpand(files[i].relativePath) /\ ~IsNoExpand(files[j].relativePath)
         /\ diskFiles[files[i].fullPath] = PlaceholderText
         /\ results[i] = << <<"t", "v2">> >>
         /\ diskFiles[files[j].fullPath] = PlainText
         /\ results[j] = << PlainText >>


C18_FirstErrorAborts ==
    call = "exportTemplate" =>
        /\ \A j \in DOMAIN files :
              (compiles[j] > 0 /\ ~CanCompile(disk0Files[files[j].fullPath])
                  /\ ~(pc = "tf_compile" /\ cur = j))
              => pc = "idle" /\ outcome = "rejected" /\ err = "HandlebarsError" /\ cur = j
        /\ (pc = "idle" /\ outcome = "rejected" /\ cur \in DOMAIN files)
              => /\ err \in {"ReadFailed", "HandlebarsError", "EnsureDirFailed", "WriteFailed"}
                 /\ written = { PathJoin(OutputPath, files[j].relativePath) : j \in 1..(cur - 1) }
                 /\ \A j \in 1..(cur - 1) :
                       LET content == disk0Files[files[j].fullPath]
                           dest == diskFiles[PathJoin(OutputPath, files[j].relativePath)]
                       IN  /\ Len(dest) = Len(content)
                           /\ \A n \in DOMAIN content :
                                 dest[n] = IF content[n] = "{{k}}" THEN data ELSE content[n]
                 /\ \A j \in cur..Len(files) :
                       PathJoin(OutputPath, files[j].relativePath) \notin DOMAIN diskFiles
                 /\ \A j \in (cur + 1)..Len(files) : reads[j] = 0 /\ compiles[j] = 0

\* The export rejected at the second of three files: one file is written.
C18_Witness ==
    /\ ExportFinished /\ outcome = "rejected" /\ err = "HandlebarsError"
    /\ cur = 2 /\ Len(files) = 3
    /\ written = { PathJoin(OutputPath, files[1].relativePath) }
    /\ PathJoin(OutputPath, files[1].relativePath) \in DOMAIN diskFiles


\* Entry i is read from disk and Handlebars cannot compile its text.
Uncompilable(i) == ~files[i].hasContent /\ ~CanCompile(diskFiles[files[i].fullPath])

\* C19 as stated: an expand() of a file whose content the substitution engine
\* rejects has rejected with a TemplateCompilationError (the error that wraps the
\* engine's error with the file's full path), and the file never has an expanded
\* content.
C19_RejectsWithTemplateCompilationError ==
    (inflated /\ pc = "idle" /\ call = "expand" /\ Uncompilable(cur))
        => /\ outcome = "rejected" /\ err = "TemplateCompilationError"
           /\ results[cur] = <<>>

\* C19 as amended: an expand() of a file whose content the substitution engine
\* rejects has rejected with the engine's own error, as Handlebars threw it; the
\* failure is never swallowed (no call on the file ever resolved) and nothing is
\* cached: every call on the file read it and invoked the engine anew.
C19_EngineErrorPropagates ==
    (inflated /\ pc = "idle") =>
        \A i \in DOMAIN files :
            Uncompilable(i) =>
                /\ results[i] = <<>>
                /\ reads[i] = expandCalls[i] /\ compiles[i] = expandCalls[i]
                /\ (call = "expand" /\ cur = i)
                      => outcome = "rejected" /\ err = "HandlebarsError"

\* expand() was called twice on a file Handlebars cannot compile and rejected twice.
C19_Witness ==
    /\ inflated /\ pc = "idle" /\ call = "expand"
    /\ Uncompilable(cur)
    /\ expandCalls[cur] = 2 /\ compiles[cur] = 2
    /\ outcome = "rejected" /\ err = "HandlebarsError"


ConfigPath == PathJoin(TemplatePath, ConfigFileName)

\* template.json is on disk and its text is not JSON.
ConfigIsMalformed == ConfigPath \in DOMAIN diskFiles /\ ~JsonParses(diskFiles[ConfigPath])

\* Every expand() that resolved on an entry read from disk went through the
\* engine: each placeholder of the file's text is replaced by the data's value.
EveryFileExpandable ==
    \A i \in DOMAIN files :
        ~files[i].hasContent =>
            \A r \in DOMAIN results[i] :
                LET content == diskFiles[files[i].fullPath]
                IN  /\ Len(results[i][r]) = Len(content)
                    /\ \A j \in DOMAIN content :
                          results[i][r][j] = IF content[j] = "{{k}}" THEN data ELSE content[j]

-----------------------------------------------------------------------------
(* Properties of the TemplateFile under sequences of calls *)

\* C21 as stated: the content of a TemplateFile is loaded at most once and
\* expanded at most once in the object's lifetime, whatever expand() and export()
\* calls are made: a step that loads (reads) the file's text is the first to do so,
\* and a step that expands (compiles) it is the first to do so.
C21_EachTransitionAtMostOnce ==
    [][\A i \in DOMAIN reads :
          /\ reads'[i] > reads[i] => reads[i] = 0
          /\ compiles'[i] > compiles[i] => compiles[i] = 0]_vars

\* C21 as amended: a TemplateFile keeps no content state between calls.  Within
\* one expand() or export() call the file goes from not loaded to loaded to
\* expanded, in that order and never back; every later call starts again from not
\* loaded: it loads the text once more, after the expansions of all the calls
\* before it, and expands once more, right after its own load.
C21_EachCallLoadsThenExpands ==
    [][\A i \in DOMAIN reads :
          /\ reads'[i] >= reads[i] /\ compiles'[i] >= compiles[i]
          /\ reads'[i] > reads[i]
                => reads[i] = compiles[i] /\ reads'[i] = expandCalls[i]
          /\ compiles'[i] > compiles[i]
                => reads[i] = compiles[i] + 1 /\ compiles'[i] = reads[i]]_vars

\* An entry was expanded by an expand() call and then loaded and expanded again by
\* an export() call, which wrote it.
C21_Witness ==
    /\ inflated /\ pc = "idle" /\ call = "export" /\ outcome = "resolved"
    /\ reads[cur] = 2 /\ compiles[cur] = 2
    /\ Len(results[cur]) = 1
    /\ PathJoin(OutputPath, files[cur].relativePath) \in written


\* C22 as stated: what expand() returns for a file is fixed by the first call: all
\* the expand() calls on one file resolve to the same value, also when the caller
\* changed the data between them.
C22_ExpansionFixedByFirstExpand ==
    inflated => \A i \in DOMAIN files : SameResults(i)

\* C22 as amended: nothing is fixed by the first expand(): every expand() that
\* resolves returns the file's text with each placeholder replaced by the value
\* the shared data object holds when that call runs, be it the first call on the
\* file or a later one.
C22_ExpansionFollowsData ==
    [][\A i \in DOMAIN results :
          results'[i] # results[i] =>
              LET content == diskFiles[files[i].fullPath]
              IN  results'[i] =
                     Append(results[i],
                            [ j \in DOMAIN content |->
                                IF content[j] = "{{k}}" THEN data ELSE content[j] ])]_vars

\* Two expand() calls on one file, the data changed between them, resolved to two
\* different values.
C22_Witness ==
    /\ inflated /\ pc = "idle" /\ call = "expand"
    /\ data = "v2"
    /\ results[cur] = << <<"t", "v1">>, <<"t", "v2">> >>


\* The regular files at any depth under the assets directory
AssetsFiles == { p \in DOMAIN diskFiles : IsPrefix(AssetsPath, p) /\ p # AssetsPath }

\* C23: with the default expand pattern, discovery puts every file under the
\* assets directory in exactly one of its sets: the file set made from them holds
\* exactly one entry for the file, so no file is classified twice and none is left
\* out.  (Every entry readFiles makes is of the expandable kind.)
C23_EveryAssetClassifiedOnce ==
    inflated =>
        \A p \in AssetsFiles :
            Cardinality({ i \in DOMAIN files : files[i].fullPath = p }) = 1

\* A template with a file under assets and files elsewhere was inflated.
C23_Witness ==
    /\ inflated /\ pc = "idle" /\ call = "inflateTemplate"
    /\ AssetsFiles # {}
    /\ Len(files) > Cardinality(AssetsFiles)
    /\ \E i \in DOMAIN files : files[i].fullPath \in AssetsFiles


\* C24: readFiles takes its steps in order and starts no step after one that
\* failed: the glob query starts only when the template root exists and its assets
\* directory exists, and on a missing template root the call has rejected with
\* the path error without any later step.
C24_StepsInOrder ==
    call = "inflateTemplate" =>
        /\ pc = "rf_glob" => RootExisted0 /\ AssetsPath \in diskDirs
        /\ (~RootExisted0 /\ pc # "rf_check")
              => pc = "idle" /\ outcome = "rejected" /\ err = "TemplatePathNotFound"


\* C25: export(outputDir) of a TemplateFile writes to join(outputDir,
\* relativePath): when the write starts the parent directory of the destination
\* exists, and the call fails only when the file's text cannot be expanded; when
\* it has resolved, the destination and its parent directories exist and the
\* destination holds the value expand() resolved to, the file's text with its
\* placeholders replaced by a value of the data.
C25_ExportEnsuresParentDirectory ==
    call = "export" =>
        LET dest == PathJoin(OutputPath, files[cur].relativePath)
            content == diskFiles[files[cur].fullPath]
        IN  /\ pc = "tf_write" => PathDirname(dest) \in diskDirs
            /\ (pc = "idle" /\ outcome = "rejected")
                  => err = "HandlebarsError" /\ Uncompilable(cur)
            /\ (pc = "idle" /\ outcome = "resolved")
                  => /\ Ancestors({dest}) \subseteq diskDirs
                     /\ dest \in DOMAIN diskFiles
                     /\ diskFiles[dest] = expandedContent
                     /\ Len(diskFiles[dest]) = Len(content)
                     /\ \A j \in DOMAIN content :
                           IF content[j] = "{{k}}"
                           THEN diskFiles[dest][j] \in DataValues
                           ELSE diskFiles[dest][j] = content[j]

\* export() of sub/b.txt resolved although neither the output directory nor its
\* sub-directory existed when the call started.
C25_Witness ==
    /\ call = "export" /\ pc = "idle" /\ outcome = "resolved"
    /\ files[cur].relativePath = RelB
    /\ OutputPath \notin disk0Dirs
    /\ PathJoin(OutputPath, <<"sub">>) \in diskDirs
    /\ diskFiles[PathJoin(OutputPath, RelB)] = <<"t", data>>


\* The loop of exportTemplate over the template files taken in the order given,
\* from the output files out (a function from path to content): each file is
\* expanded and written at join(outputPath, relativePath), and the first file that
\* cannot be expanded ends the loop.
RECURSIVE ExportInOrder(_, _)
ExportInOrder(paths, out) ==
    IF paths = <<>> THEN out
    ELSE LET content == disk0Files[Head(paths)]
             dest == PathJoin(OutputPath, PathRelative(TemplatePath, Head(paths)))
         IN  IF CanCompile(content)
             THEN ExportInOrder(Tail(paths),
                                [ q \in DOMAIN out \cup {dest} |->
                                    IF q = dest
                                    THEN [ j \in DOMAIN content |->
                                             IF content[j] = "{{k}}" THEN data ELSE content[j] ]
                                    ELSE out[q] ])
             ELSE out

\* The files of the output directory are the files of the map out, with the same
\* contents.
OutputIs(out) ==
    /\ OutputFilesOf(diskFiles) = DOMAIN out
    /\ \A q \in DOMAIN out : diskFiles[q] = out[q]

\* The orders in which the files of the template can be exported
ExportOrders ==
    Orderings(Globby(TemplatePath, { PathJoin(TemplatePath, ConfigFileName),
                                     PathJoin(TemplatePath, TestDataFileName) }))

\* The loop of exportTemplate has run: the call ended in it or after it.
LoopRan == ExportFinished /\ (outcome = "resolved" \/ cur \in DOMAIN files)

\* C26 as stated: when the bulk export has ended, the content of the output
\* directory is what the export of the files in any order leaves: it is the same
\* for every order.
C26_OrderIndependent ==
    LoopRan => \A order \in ExportOrders : OutputIs(ExportInOrder(order, <<>>))

\* C26 as amended: when the bulk export has resolved, the content of the output
\* directory is what the export of the files in any order leaves; when it has
\* rejected at a file, the content is what the export in the order taken leaves,
\* the files before the failing one, and so depends on the order.
C26_OrderIndependentWhenResolved ==
    LoopRan =>
        /\ OutputIs(ExportInOrder([ i \in DOMAIN files |-> files[i].fullPath ], <<>>))
        /\ outcome = "resolved"
              => \A order \in ExportOrders : OutputIs(ExportInOrder(order, <<>>))

\* An export of three files resolved, in an order that is not the only one.
C26_Witness ==
    /\ LoopRan /\ outcome = "resolved"
    /\ Len(files) = 3
    /\ Cardinality(OutputFilesOf(diskFiles)) = 3
    /\ files[1].relativePath = RelB
    /\ OutputFilesOf(disk0Files) # {}


\* C27: the file set is made by the step that completes readFiles and by no other
\* step: no step of a find, expand or export call adds, removes, replaces or
\* renames an entry; and in exportTemplate the export of a file starts only from
\* the loop, which is entered only when readFiles has completed or when the
\* export of the file before has.
C27_FileSetImmutableAfterReadFiles ==
    [][/\ pc # "rf_glob" => files' = files
       /\ pc' = "et_loop" => pc \in {"rf_glob", "tf_write"}
       /\ (pc' = "tf_read" /\ call' = "exportTemplate")
             => pc = "et_loop" /\ cur \in DOMAIN files]_vars

\* After an export() and an expand() on its entries, and a find, the file set of
\* two entries is as readFiles made it.
C27_Witness ==
    /\ inflated /\ call = "find" /\ found.file = 2
    /\ Len(files) = 2
    /\ written # {}
    /\ \E i \in DOMAIN files : results[i] # <<>>


-----------------------------------------------------------------------------
(* Properties of overlapping calls *)

\* Two activations of expand() on the same TemplateFile have both ended.
BothExpandsEnded ==
    /\ call = "expand" /\ pc = "idle"
    /\ other.call = "expand" /\ other.pc = "idle"
    /\ other.cur = cur

\* C28: when two overlapping expand() calls on one TemplateFile have both ended,
\* both have resolved, unless the file's text cannot be compiled and both have
\* rejected, and each resolved to the value a single expand() call returns: the
\* whole text of the file with each placeholder replaced by the data's value.
C28_OverlappingExpandsAgree ==
    BothExpandsEnded =>
        LET content == diskFiles[files[cur].fullPath]
            single == [ j \in DOMAIN content |->
                          IF content[j] = "{{k}}" THEN data ELSE content[j] ]
        IN  IF CanCompile(content)
            THEN /\ outcome = "resolved" /\ other.outcome = "resolved"
                 /\ expandedContent = single /\ other.expandedContent = single
                 /\ results[cur][Len(results[cur])] = single
                 /\ other.results[cur][Len(other.results[cur])] = single
            ELSE outcome = "rejected" /\ other.outcome = "rejected"

\* Two overlapping expand() calls on a file with a placeholder both resolved, each
\* after its own read and its own call of the engine.
C28_Witness ==
    /\ BothExpandsEnded
    /\ outcome = "resolved" /\ other.outcome = "resolved"
    /\ reads[cur] = 1 /\ other.reads[cur] = 1
    /\ compiles[cur] = 1 /\ other.compiles[cur] = 1
    /\ expandedContent = <<"t", data>> /\ other.expandedContent = <<"t", data>>


\* Two exportTemplate runs to the same output path have both ended.
BothRunsEnded ==
    /\ call = "exportTemplate" /\ pc = "idle"
    /\ other.call = "exportTemplate" /\ other.pc = "idle"

\* What a run with the data d leaves in the output directory when it is alone:
\* every file of the template expanded against d.
AloneOutputIs(d) ==
    /\ OutputFilesOf(diskFiles) = { PathJoin(OutputPath, RelA), PathJoin(OutputPath, RelB) }
    /\ \A q \in OutputFilesOf(diskFiles) : diskFiles[q] = <<"t", d>>

\* C29: two exportTemplate runs to the same output path are not coordinated: a run
\* that has a step to take can take it wherever the other run stands, be it the
\* removal of the output directory while the other run is writing into it.
C29_RunsNotCoordinated ==
    (call = "exportTemplate" /\ pc # "idle") => ENABLED NextExport

\* Both runs have resolved, the one having removed the output directory it found
\* and the other having written files, and the output directory is neither what
\* the one nor what the other leaves when it runs alone: it holds a file of each.
C29_Witness ==
    /\ BothRunsEnded
    /\ outcome = "resolved" /\ other.outcome = "resolved"
    /\ options.overwrite /\ OutputExisted0 /\ other.written # {}
    /\ ~AloneOutputIs(data) /\ ~AloneOutputIs(other.data)
    /\ diskFiles[PathJoin(OutputPath, RelA)] = <<"t", data>>
    /\ diskFiles[PathJoin(OutputPath, RelB)] = <<"t", other.data>>


\* C30: in exportTemplate, when discovery starts the existence check, the removal
\* and the creation of the output directory are done: the output directory exists
\* and, when it existed before, overwrite is set and nothing of its previous
\* content is left.  So when readFiles then fails on a missing template root, the
\* call has rejected with the output directory created, empty, and under
\* overwrite with its previous content deleted.
C30_OutputPreparedBeforeDiscovery ==
    call = "exportTemplate" =>
        /\ pc \in {"rf_check", "rf_glob"}
              => /\ OutputPath \in diskDirs
                 /\ OutputFilesOf(diskFiles) = {}
                 /\ OutputExisted0 => options.overwrite
                 /\ files = <<>>
        /\ (pc = "idle" /\ outcome = "rejected" /\ err = "TemplatePathNotFound")
              => /\ OutputPath \in diskDirs
                 /\ OutputFilesOf(diskFiles) = {}
                 /\ OutputExisted0 => options.overwrite
                 /\ \A p \in OutputFilesOf(disk0Files) : p \notin DOMAIN diskFiles
                 /\ written = {}

\* An export with overwrite onto an output directory that held files rejected on
\* a missing template root: the files are gone and the directory is there.
C30_Witness ==
    /\ ExportFinished /\ outcome = "rejected" /\ err = "TemplatePathNotFound"
    /\ options.overwrite
    /\ Cardinality(OutputFilesOf(disk0Files)) > 1
    /\ OutputPath \in diskDirs
    /\ OutputFilesOf(diskFiles) = {}

====
